---- MODULE Spec2Model ----
(***************************************************************************)
(* A model of neuroshell.py: the attribute reader, the key=value parser,   *)
(* the five category aggregations, the requirement check and the command   *)
(* line driver.  Text is modelled as a sequence of one-character strings,  *)
(* a dict as a function whose domain is a set of such sequences.  A run    *)
(* takes one step per read_attr call, so that the provider can be seen to  *)
(* change between two reads.  Not modelled: KeyboardInterrupt (exit 130)   *)
(* and I/O errors other than a missing or an unreadable file.              *)
(***************************************************************************)
EXTENDS Integers, Sequences, FiniteSets, TLC

\* ------------------------------------------------------------------ bounds
\* longest value text of a k=v line enumerated for the parser
MaxValLen == 3
\* how often the provider may replace its content during one run
MaxChanges == 1

\* ------------------------------------------------------- program constants
MB == 1048576
GB == 1073741824
HalfGB == GB \div 2
ExitOk == 0
ExitFail == 1

\* ------------------------------------------------------------ text helpers
NL == "\n"
Digits == {"0", "1", "2", "3", "4", "5", "6", "7", "8", "9"}
DigitVal(c) ==
    CASE c = "0" -> 0 [] c = "1" -> 1 [] c = "2" -> 2 [] c = "3" -> 3
      [] c = "4" -> 4 [] c = "5" -> 5 [] c = "6" -> 6 [] c = "7" -> 7
      [] c = "8" -> 8 [] c = "9" -> 9 [] OTHER -> 0

\* the whitespace characters of the modelled alphabet (str.isspace)
IsSpace(c) == c \in {" ", "\t", NL}

RECURSIVE LStrip(_)
LStrip(s) == IF s # <<>> /\ IsSpace(Head(s)) THEN LStrip(Tail(s)) ELSE s

RECURSIVE RStrip(_)
RStrip(s) ==
    IF s # <<>> /\ IsSpace(s[Len(s)]) THEN RStrip(SubSeq(s, 1, Len(s) - 1)) ELSE s

\* str.strip()
Strip(s) == RStrip(LStrip(s))

\* index of the first occurrence of c in s, 0 when there is none
RECURSIVE IndexFrom(_, _, _)
IndexFrom(s, c, i) ==
    IF i > Len(s) THEN 0 ELSE IF s[i] = c THEN i ELSE IndexFrom(s, c, i + 1)

IndexOf(s, c) == IndexFrom(s, c, 1)

\* index of the last occurrence of c in s, 0 when there is none
RECURSIVE LastIndexFrom(_, _, _)
LastIndexFrom(s, c, i) ==
    IF i < 1 THEN 0 ELSE IF s[i] = c THEN i ELSE LastIndexFrom(s, c, i - 1)

\* str.split('\n')
RECURSIVE SplitLines(_)
SplitLines(s) ==
    LET i == IndexOf(s, NL)
    IN IF i = 0 THEN <<s>>
       ELSE <<SubSeq(s, 1, i - 1)>> \o SplitLines(SubSeq(s, i + 1, Len(s)))

\* ------------------------------------------------------------------ values
\* a Python value held in a record: None, int, str, or the float n / 2^30
NoneV == [t |-> "none", n |-> 0, s |-> <<>>]
IntV(n) == [t |-> "int", n |-> n, s |-> <<>>]
StrV(s) == [t |-> "str", n |-> 0, s |-> s]
FloatGB(bytes) == [t |-> "float", n |-> bytes, s |-> <<>>]

\* truth value of an Optional[str]: None and "" are false
Truthy(v) == v.t = "str" /\ v.s # <<>>

\* ------------------------------------------------------------------- dicts
EmptyDict == [k \in {} |-> NoneV]
Put(d, k, v) == [x \in (DOMAIN d) \cup {k} |-> IF x = k THEN v ELSE d[x]]
\* dict.update: the argument's keys win
Update(d, e) == [x \in (DOMAIN d) \cup (DOMAIN e) |-> IF x \in DOMAIN e THEN e[x] ELSE d[x]]
\* dict.get(k, default)
Get(d, k, default) == IF k \in DOMAIN d THEN d[k] ELSE default

\* ------------------------------------------------------------------- int()
\* value of a digit string in which single underscores may separate digits
RECURSIVE DigitsValue(_, _)
DigitsValue(s, acc) ==
    IF s = <<>> THEN acc
    ELSE IF Head(s) = "_" THEN DigitsValue(Tail(s), acc)
    ELSE DigitsValue(Tail(s), 10 * acc + DigitVal(Head(s)))

\* digits, with single underscores only between two digits
WellFormedDigits(s) ==
    /\ s # <<>>
    /\ \A i \in 1..Len(s) : s[i] \in Digits \cup {"_"}
    /\ s[1] \in Digits
    /\ s[Len(s)] \in Digits
    /\ \A i \in 1..(Len(s) - 1) : ~(s[i] = "_" /\ s[i + 1] = "_")

\* int(text): surrounding whitespace is dropped, one sign '+' or '-' is
\* accepted; ok = FALSE stands for ValueError
PyInt(text) ==
    LET s == Strip(text)
        signed == s # <<>> /\ Head(s) \in {"+", "-"}
        body == IF signed THEN Tail(s) ELSE s
        mag == DigitsValue(body, 0)
    IN IF WellFormedDigits(body)
       THEN [ok |-> TRUE, n |-> IF signed /\ Head(s) = "-" THEN 0 - mag ELSE mag]
       ELSE [ok |-> FALSE, n |-> 0]

\* --------------------------------------------------------- parse_key_value
\* line.split('=', 1) on a line that holds '=': split at the last '=' instead
SplitKeyValueLast(line) ==
    LET i == LastIndexFrom(line, "=", Len(line))
    IN [key |-> SubSeq(line, 1, i - 1), value |-> SubSeq(line, i + 1, Len(line))]

\* line.split('=', 1) on a line that holds '='
SplitKeyValue(line) ==
    LET i == IndexOf(line, "=")
    IN [key |-> SubSeq(line, 1, i - 1), value |-> SubSeq(line, i + 1, Len(line))]

\* the body of the for loop: one line merged into result
ParseLine(result, rawLine) ==
    LET line == Strip(rawLine)
    IN IF IndexOf(line, "=") = 0 THEN result
       ELSE LET kv == SplitKeyValue(line)
                r == PyInt(kv.value)
            IN Put(result, kv.key, IF r.ok THEN IntV(r.n) ELSE StrV(kv.value))

RECURSIVE ParseLines(_, _)
ParseLines(result, lines) ==
    IF lines = <<>> THEN result
    ELSE ParseLines(ParseLine(result, Head(lines)), Tail(lines))

ParseKeyValue(content) == ParseLines(EmptyDict, SplitLines(content))

\* ------------------------------------------------- field names (dict keys)
K_online == <<"o", "n", "l", "i", "n", "e">>
K_total == <<"t", "o", "t", "a", "l">>
K_topology == <<"t", "o", "p", "o", "l", "o", "g", "y">>
K_total_bytes == <<"t", "o", "t", "a", "l", "_", "b", "y", "t", "e", "s">>
K_total_mb == <<"t", "o", "t", "a", "l", "_", "m", "b">>
K_total_gb == <<"t", "o", "t", "a", "l", "_", "g", "b">>
K_nodes == <<"n", "o", "d", "e", "s">>
K_details == <<"d", "e", "t", "a", "i", "l", "s">>
K_count == <<"c", "o", "u", "n", "t">>

\* ------------------------------------------------------------ the provider
Attrs == {"cpu_count", "cpu_total", "cpu_info", "cpu_topology",
          "mem_total_bytes", "mem_info", "numa_nodes", "numa_info",
          "gpu_info", "gpu_details", "accelerator_count",
          "accelerator_details", "system_summary"}

\* a file of the provider: readable with its text, missing, or unreadable
File(text) == [kind |-> "ok", text |-> text]
Absent == [kind |-> "absent", text |-> <<>>]
Denied == [kind |-> "denied", text |-> <<>>]

\* f with the files of g's domain replaced
With(f, g) == [a \in Attrs |-> IF a \in DOMAIN g THEN g[a] ELSE f[a]]

\* file texts the provider is seen with; byte counts stay below 2^31
T_8 == <<"8", "\n">>
T_4 == <<"4", "\n">>
T_1 == <<"1", "\n">>
T_abc == <<"a", "b", "c", "\n">>
T_empty == <<"\n">>
T_cpu_blob == <<"m", "o", "d", "e", "l", "=", "x", "\n", "c", "o", "r", "e", "s", "=", "4", "\n">>
T_cpu_blob2 == <<"m", "o", "d", "e", "l", "=", "y", "\n", "c", "o", "r", "e", "s", "=", "2", "\n">>
T_cpu_collide == <<"o", "n", "l", "i", "n", "e", "=", "2", "\n", "t", "o", "t", "a", "l", "=", "2", "\n", "t", "o", "p", "o", "l", "o", "g", "y", "=", "f", "l", "a", "t", "\n">>
T_cpu_string == <<"o", "n", "l", "i", "n", "e", "=", "m", "a", "n", "y", "\n">>
T_topology == <<"p", "k", "g", "0", "\n", "c", "o", "r", "e", "0", "\n">>
T_bytes_15 == <<"1", "6", "1", "0", "6", "1", "2", "7", "3", "6", "\n">>
T_bytes_10 == <<"1", "0", "7", "3", "7", "4", "1", "8", "2", "4", "\n">>
T_bytes_bad == <<"1", ".", "5", "e", "9", "\n">>
T_mem_blob == <<"f", "r", "e", "e", "=", "1", "2", "\n">>
T_mem_collide == <<"t", "o", "t", "a", "l", "_", "b", "y", "t", "e", "s", "=", "5", "\n", "t", "o", "t", "a", "l", "_", "m", "b", "=", "6", "\n", "t", "o", "t", "a", "l", "_", "g", "b", "=", "7", "\n">>
T_mem_string == <<"t", "o", "t", "a", "l", "_", "g", "b", "=", "b", "i", "g", "\n">>
T_numa_info == <<"n", "o", "d", "e", "0", "\n">>
T_gpu_blob == <<"t", "o", "t", "a", "l", "=", "2", "\n", "n", "v", "i", "d", "i", "a", "=", "2", "\n">>
T_gpu_collide == <<"t", "o", "t", "a", "l", "=", "1", "\n", "d", "e", "t", "a", "i", "l", "s", "=", "b", "l", "o", "b", "\n">>
T_gpu_string == <<"t", "o", "t", "a", "l", "=", "t", "w", "o", "\n">>
T_gpu_details == <<"g", "p", "u", "0", "\n">>
T_accel_details == <<"t", "p", "u", "0", "\n">>
T_na == <<"n", "/", "a", "\n">>
T_summary == <<" ", "a", "l", "l", " ", "o", "k", " ", "\n">>

\* --------------------------------------------------- provider contents
AllAbsent == [a \in Attrs |-> Absent]
AllDenied == [a \in Attrs |-> Denied]
AllEmpty == [a \in Attrs |-> File(T_empty)]

Healthy ==
    [a \in Attrs |->
        CASE a = "cpu_count" -> File(T_8)
          [] a = "cpu_total" -> File(T_8)
          [] a = "cpu_info" -> File(T_cpu_blob)
          [] a = "cpu_topology" -> File(T_topology)
          [] a = "mem_total_bytes" -> File(T_bytes_15)
          [] a = "mem_info" -> File(T_mem_blob)
          [] a = "numa_nodes" -> File(T_1)
          [] a = "numa_info" -> File(T_numa_info)
          [] a = "gpu_info" -> File(T_gpu_blob)
          [] a = "gpu_details" -> File(T_gpu_details)
          [] a = "accelerator_count" -> File(T_1)
          [] a = "accelerator_details" -> File(T_accel_details)
          [] OTHER -> File(T_summary)]

\* a second healthy machine: fewer CPUs online, another CPU model
Healthy2 ==
    With(Healthy, [cpu_count |-> File(T_4), cpu_info |-> File(T_cpu_blob2),
                   mem_total_bytes |-> File(T_bytes_10)])

\* blobs whose keys collide with the synthetic fields
Collide ==
    With(Healthy, [cpu_info |-> File(T_cpu_collide),
                   mem_info |-> File(T_mem_collide),
                   gpu_info |-> File(T_gpu_collide)])

\* the same blobs with the scalar and free-text attributes missing
CollideBlobOnly ==
    With(AllAbsent, [cpu_info |-> File(T_cpu_collide),
                     mem_info |-> File(T_mem_collide),
                     gpu_info |-> File(T_gpu_collide)])

NoGpu == With(Healthy, [gpu_info |-> Absent, gpu_details |-> Absent])

BadCpuCount == With(Healthy, [cpu_count |-> File(T_abc)])

BadOthers ==
    With(Healthy, [cpu_total |-> File(T_na), mem_total_bytes |-> File(T_bytes_bad),
                   numa_nodes |-> File(T_na), accelerator_count |-> File(T_na)])

GpuStringTotal == With(Healthy, [gpu_info |-> File(T_gpu_string)])

StringFields ==
    With(Healthy, [cpu_info |-> File(T_cpu_string), mem_info |-> File(T_mem_string),
                   gpu_info |-> File(T_gpu_string)])

Scenarios ==
    {AllAbsent, AllDenied, AllEmpty, Healthy, Healthy2, Collide, CollideBlobOnly,
     NoGpu, BadCpuCount, BadOthers, GpuStringTotal, StringFields}

\* the contents the provider moves between while a run is in progress
RaceScenarios == {AllAbsent, Healthy, Healthy2, Collide}

\* ----------------------------------------------------------------- read_attr
\* what one read_attr call returns and what it writes to the error stream
ErrLine(kind, attr) == [kind |-> kind, attr |-> attr]

\* read_attr that returns the text as it is in the file
ReadAttrRaw(f, attribute) ==
    CASE f[attribute].kind = "ok" ->
            [value |-> StrV(f[attribute].text), diag |-> <<>>]
      [] f[attribute].kind = "absent" ->
            [value |-> NoneV, diag |-> <<>>]
      [] OTHER ->
            [value |-> NoneV, diag |-> <<ErrLine("permission", attribute)>>]

ReadAttr(f, attribute) ==
    CASE f[attribute].kind = "ok" ->
            [value |-> StrV(Strip(f[attribute].text)), diag |-> <<>>]
      [] f[attribute].kind = "absent" ->
            [value |-> NoneV, diag |-> <<>>]
      [] OTHER ->
            [value |-> NoneV, diag |-> <<ErrLine("permission", attribute)>>]

\* ------------------------------------------------- the category aggregations
\* Each aggregation reads its attributes in the order of its list; XStep is
\* what the code does with the i-th read result v: the new record, or
\* raised = TRUE when int() raises ValueError.
Returned(info) == [raised |-> FALSE, info |-> info]
Raised(info) == [raised |-> TRUE, info |-> info]

\* info[key] = int(v)
PutInt(info, key, v) ==
    LET r == PyInt(v.s)
    IN IF r.ok THEN Returned(Put(info, key, IntV(r.n))) ELSE Raised(info)

\* the attribute list with cpu_count read a second time in place of cpu_total
CpuAttrsCountTwice == <<"cpu_count", "cpu_count", "cpu_info", "cpu_topology">>

CpuAttrs == <<"cpu_count", "cpu_total", "cpu_info", "cpu_topology">>

\* get_cpu_info that stores the topology without testing it
CpuStepUnguardedTopology(info, i, v) ==
    IF i = 4 THEN Returned(Put(info, K_topology, v))
    ELSE IF ~Truthy(v) THEN Returned(info)
    ELSE CASE i = 1 -> PutInt(info, K_online, v)
           [] i = 2 -> PutInt(info, K_total, v)
           [] OTHER -> Returned(Update(info, ParseKeyValue(v.s)))

\* get_cpu_info in which the blob only fills the keys not yet set
CpuStepBlobYields(info, i, v) ==
    IF ~Truthy(v) THEN Returned(info)
    ELSE CASE i = 1 -> PutInt(info, K_online, v)
           [] i = 2 -> PutInt(info, K_total, v)
           [] i = 3 -> Returned(Update(ParseKeyValue(v.s), info))
           [] OTHER -> Returned(Put(info, K_topology, v))

CpuStep(info, i, v) ==
    IF ~Truthy(v) THEN Returned(info)
    ELSE CASE i = 1 -> PutInt(info, K_online, v)
           [] i = 2 -> PutInt(info, K_total, v)
           [] i = 3 -> Returned(Update(info, ParseKeyValue(v.s)))
           [] OTHER -> Returned(Put(info, K_topology, v))

MemoryAttrs == <<"mem_total_bytes", "mem_info">>

MemoryStep(info, i, v) ==
    IF ~Truthy(v) THEN Returned(info)
    ELSE CASE i = 1 ->
                LET r == PyInt(v.s)
                IN IF ~r.ok THEN Raised(info)
                   ELSE Returned(Put(Put(Put(info, K_total_bytes, IntV(r.n)),
                                         K_total_mb, IntV(r.n \div MB)),
                                     K_total_gb, FloatGB(r.n)))
           [] OTHER -> Returned(Update(info, ParseKeyValue(v.s)))

NumaAttrs == <<"numa_nodes", "numa_info">>

NumaStep(info, i, v) ==
    IF ~Truthy(v) THEN Returned(info)
    ELSE CASE i = 1 -> PutInt(info, K_nodes, v)
           [] OTHER -> Returned(Put(info, K_details, v))

GpuAttrs == <<"gpu_info", "gpu_details">>

GpuStep(info, i, v) ==
    IF ~Truthy(v) THEN Returned(info)
    ELSE CASE i = 1 -> Returned(Update(info, ParseKeyValue(v.s)))
           [] OTHER -> Returned(Put(info, K_details, v))

AcceleratorAttrs == <<"accelerator_count", "accelerator_details">>

AcceleratorStep(info, i, v) ==
    IF ~Truthy(v) THEN Returned(info)
    ELSE CASE i = 1 -> PutInt(info, K_count, v)
           [] OTHER -> Returned(Put(info, K_details, v))

\* ------------------------------------------------------- check_requirements
\* a >= b for the values a record can hold against a threshold; total_gb is
\* compared in half gigabytes.  ok = FALSE stands for TypeError (str >= number)
GeInt(v, min) ==
    IF v.t = "int" THEN [ok |-> TRUE, b |-> v.n >= min]
    ELSE IF v.t = "float" THEN [ok |-> TRUE, b |-> (v.n \div GB) >= min]
    ELSE [ok |-> FALSE, b |-> FALSE]

GeHalfGb(v, minHalf) ==
    IF v.t = "int" THEN [ok |-> TRUE, b |-> 2 * v.n >= minHalf]
    ELSE IF v.t = "float" THEN [ok |-> TRUE, b |-> (v.n \div HalfGB) >= minHalf]
    ELSE [ok |-> FALSE, b |-> FALSE]

\* the checks dict and all(checks.values())
Checks(cpu_info, mem_info, gpu_info, min_cpus, min_memory_half, min_gpus) ==
    LET c == GeInt(Get(cpu_info, K_online, IntV(0)), min_cpus)
        m == GeHalfGb(Get(mem_info, K_total_gb, IntV(0)), min_memory_half)
        g == GeInt(Get(gpu_info, K_total, IntV(0)), min_gpus)
    IN [raised |-> ~(c.ok /\ m.ok /\ g.ok),
        cpus |-> c.b, memory |-> m.b, gpus |-> g.b,
        all |-> c.b /\ m.b /\ g.b]

\* ================================================================ the state
VARIABLES
    baseExists,  \* NEUROSHELL_PATH.exists() at startup
    fs,          \* the provider: attribute name -> file
    args,        \* the parsed command line
    pc,          \* where the run is
    todo,        \* the aggregations still to run, in call order
    step,        \* index of the next read of the running aggregation
    info,        \* the record of the running aggregation
    results,     \* category name -> returned record
    out,         \* standard output, one entry per print
    err,         \* the error stream, one entry per print
    exit,        \* exit status, -1 while the process runs
    raised,      \* the uncaught exception that ended the run, "" if none
    verdict,     \* what check_requirements returned: "none", "met", "unmet"
    nreads,      \* number of read_attr calls so far
    lastRead,    \* the last read_attr call: file found, value returned, diagnostics
    changes,     \* number of provider changes so far
    lines,       \* parser run: the k=v lines of the blob
    parsed       \* parser run: what parse_key_value returned

vars == <<baseExists, fs, args, pc, todo, step, info, results, out, err, exit,
          raised, verdict, nreads, lastRead, changes, lines, parsed>>

runVars == <<baseExists, fs, args, todo, step, info, results, out, err, exit,
             raised, verdict, nreads, lastRead, changes>>

AllCats == <<"cpu", "memory", "numa", "gpu", "accelerator">>
CheckCats == <<"cpu", "memory", "gpu">>

\* the thresholds a run is given; memory in half gigabytes (16 = 8.0 GB)
DefaultMinCpus == 4
DefaultMinMemoryHalf == 16
DefaultMinGpus == 1
MinCpusSet == {DefaultMinCpus, 9}
MinMemoryHalfSet == {DefaultMinMemoryHalf, 2}
MinGpusSet == {DefaultMinGpus, 0}

Flags == {"check", "summary", "all", "cpu", "memory", "numa", "gpu", "accelerator", "json"}

MkArgs(on, c, m, g) ==
    [check |-> "check" \in on, summary |-> "summary" \in on, all |-> "all" \in on,
     cpu |-> "cpu" \in on, memory |-> "memory" \in on, numa |-> "numa" \in on,
     gpu |-> "gpu" \in on, accelerator |-> "accelerator" \in on, json |-> "json" \in on,
     min_cpus |-> c, min_memory_half |-> m, min_gpus |-> g]

\* every flag combination; the thresholds vary where they are used
ArgsSet ==
    {MkArgs(on, c, m, g) : on \in {x \in SUBSET Flags : "check" \in x},
                           c \in MinCpusSet, m \in MinMemoryHalfSet, g \in MinGpusSet}
    \cup {MkArgs(on, DefaultMinCpus, DefaultMinMemoryHalf, DefaultMinGpus) :
              on \in {x \in SUBSET Flags : "check" \notin x}}

NoRead == [attr |-> "", kind |-> "", text |-> <<>>, value |-> NoneV, ndiag |-> 0]

InitRun ==
    /\ pc = "start"
    /\ todo = <<>>
    /\ step = 1
    /\ info = EmptyDict
    /\ results = [c \in {} |-> EmptyDict]
    /\ out = <<>>
    /\ err = <<>>
    /\ exit = -1
    /\ raised = ""
    /\ verdict = "none"
    /\ nreads = 0
    /\ lastRead = NoRead
    /\ changes = 0
    /\ lines = <<>>
    /\ parsed = EmptyDict

\* a run of the program against a provider that keeps its content
Init ==
    /\ InitRun
    /\ args \in ArgsSet
    /\ \/ baseExists = TRUE /\ fs \in Scenarios
       \/ baseExists = FALSE /\ fs = AllAbsent

\* ---------------------------------------------------------------- the run
\* the categories main() aggregates when neither --check-requirements nor
\* --summary is given
Selected(a) ==
    IF a.all THEN AllCats ELSE SelectSeq(AllCats, LAMBDA c : a[c])

\* NeuroShell.__init__ that does not look at the base path
ConstructUnchecked(exists) == "ok"

\* NeuroShell.__init__: "ok", or the exception it raises
Construct(exists) == IF exists THEN "ok" ELSE "NeuroShellError"

\* main() with --summary tested before --check-requirements
DispatchSummaryFirst(a) ==
    IF a.summary THEN [pc |-> "summary", todo |-> <<>>]
    ELSE IF a.check THEN [pc |-> "aggregate", todo |-> CheckCats]
    ELSE [pc |-> IF Selected(a) = <<>> THEN "print" ELSE "aggregate", todo |-> Selected(a)]

\* main(): where the flags send the run, and the aggregations it will call
Dispatch(a) ==
    IF a.check THEN [pc |-> "aggregate", todo |-> CheckCats]
    ELSE IF a.summary THEN [pc |-> "summary", todo |-> <<>>]
    ELSE [pc |-> IF Selected(a) = <<>> THEN "print" ELSE "aggregate", todo |-> Selected(a)]

\* ns = NeuroShell(), the handler of NeuroShellError, and the dispatch
MainStart ==
    /\ pc = "start"
    /\ IF Construct(baseExists) = "NeuroShellError"
       THEN /\ err' = err \o <<ErrLine("error", ""), ErrLine("hint", ""), ErrLine("command", "")>>
            /\ exit' = ExitFail
            /\ pc' = "exited"
            /\ todo' = todo
       ELSE /\ err' = err
            /\ exit' = exit
            /\ todo' = Dispatch(args).todo
            /\ pc' = Dispatch(args).pc
    /\ UNCHANGED <<baseExists, fs, args, step, info, results, out, raised, verdict,
                   nreads, lastRead, changes, lines, parsed>>

\* one read of the aggregation cat and what the code does with the result,
\* up to the next read or the return; s is the outcome of the code that
\* follows the read
AggregateStep(cat, attrs, s) ==
    LET a == attrs[step]
        r == ReadAttr(fs, a)
    IN /\ nreads' = nreads + 1
       /\ lastRead' = [attr |-> a, kind |-> fs[a].kind, text |-> fs[a].text,
                       value |-> r.value, ndiag |-> Len(r.diag)]
       /\ IF s.raised
          THEN /\ err' = err \o r.diag \o <<ErrLine("traceback", "ValueError")>>
               /\ raised' = "ValueError"
               /\ exit' = ExitFail
               /\ pc' = "exited"
               /\ UNCHANGED <<todo, step, info, results>>
          ELSE /\ err' = err \o r.diag
               /\ UNCHANGED <<raised, exit>>
               /\ IF step < Len(attrs)
                  THEN /\ step' = step + 1
                       /\ info' = s.info
                       /\ UNCHANGED <<todo, results, pc>>
                  ELSE /\ step' = 1
                       /\ info' = EmptyDict
                       /\ results' = Put(results, cat, s.info)
                       /\ todo' = Tail(todo)
                       /\ pc' = IF Tail(todo) # <<>> THEN "aggregate"
                                ELSE IF args.check THEN "evaluate" ELSE "print"
       /\ UNCHANGED <<baseExists, fs, args, out, verdict, changes, lines, parsed>>

\* the aggregation that main(), get_all_info or check_requirements calls next
Running(cat) == pc = "aggregate" /\ todo # <<>> /\ Head(todo) = cat

GetCpuInfo ==
    /\ Running("cpu")
    /\ AggregateStep("cpu", CpuAttrs,
                     CpuStep(info, step, ReadAttr(fs, CpuAttrs[step]).value))

GetMemoryInfo ==
    /\ Running("memory")
    /\ AggregateStep("memory", MemoryAttrs,
                     MemoryStep(info, step, ReadAttr(fs, MemoryAttrs[step]).value))

GetNumaInfo ==
    /\ Running("numa")
    /\ AggregateStep("numa", NumaAttrs,
                     NumaStep(info, step, ReadAttr(fs, NumaAttrs[step]).value))

GetGpuInfo ==
    /\ Running("gpu")
    /\ AggregateStep("gpu", GpuAttrs,
                     GpuStep(info, step, ReadAttr(fs, GpuAttrs[step]).value))

GetAcceleratorInfo ==
    /\ Running("accelerator")
    /\ AggregateStep("accelerator", AcceleratorAttrs,
                     AcceleratorStep(info, step, ReadAttr(fs, AcceleratorAttrs[step]).value))

OutLine(kind, text, data) == [kind |-> kind, text |-> text, data |-> data]
NoData == [c \in {} |-> EmptyDict]

\* check_requirements after its three aggregations: the comparisons, the
\* report, and main()'s sys.exit
CheckRequirements ==
    /\ pc = "evaluate"
    /\ LET c == Checks(results["cpu"], results["memory"], results["gpu"],
                       args.min_cpus, args.min_memory_half, args.min_gpus)
       IN IF c.raised
          THEN /\ err' = Append(err, ErrLine("traceback", "TypeError"))
               /\ raised' = "TypeError"
               /\ exit' = ExitFail
               /\ UNCHANGED <<out, verdict>>
          ELSE /\ out' = out \o <<OutLine("report_header", <<>>, NoData),
                                  OutLine(IF c.cpus THEN "cpus_ok" ELSE "cpus_fail", <<>>, NoData),
                                  OutLine(IF c.memory THEN "memory_ok" ELSE "memory_fail", <<>>, NoData),
                                  OutLine(IF c.gpus THEN "gpus_ok" ELSE "gpus_fail", <<>>, NoData)>>
               /\ verdict' = IF c.all THEN "met" ELSE "unmet"
               /\ exit' = IF c.all THEN ExitOk ELSE ExitFail
               /\ UNCHANGED <<err, raised>>
    /\ pc' = "exited"
    /\ UNCHANGED <<baseExists, fs, args, todo, step, info, results, nreads, lastRead,
                   changes, lines, parsed>>

SummaryFallback ==
    <<"S", "u", "m", "m", "a", "r", "y", " ", "n", "o", "t", " ",
      "a", "v", "a", "i", "l", "a", "b", "l", "e">>

\* get_system_summary's result for a read result
SummaryText(v) == IF Truthy(v) THEN v.s ELSE SummaryFallback

\* print(ns.get_system_summary()): one read, one line on standard output
DoPrintSummary ==
    LET r == ReadAttr(fs, "system_summary")
    IN /\ nreads' = nreads + 1
       /\ lastRead' = [attr |-> "system_summary", kind |-> fs["system_summary"].kind,
                       text |-> fs["system_summary"].text,
                       value |-> r.value, ndiag |-> Len(r.diag)]
       /\ err' = err \o r.diag
       /\ out' = Append(out, OutLine("summary", SummaryText(r.value), NoData))

\* --summary: print the summary and return
PrintSummary ==
    /\ pc = "summary"
    /\ DoPrintSummary
    /\ exit' = ExitOk
    /\ pc' = "exited"
    /\ UNCHANGED <<baseExists, fs, args, todo, step, info, results, raised, verdict,
                   changes, lines, parsed>>

\* "not info" that also takes a dict of empty records for empty
InfoIsEmptyDeep(d) == \A c \in DOMAIN d : d[c] = EmptyDict

\* not info
InfoIsEmpty(d) == DOMAIN d = {}

\* the end of main(): the summary when info is empty, else info rendered as
\* JSON or as the per-category listing
PrintInfo ==
    /\ pc = "print"
    /\ IF InfoIsEmpty(results)
       THEN DoPrintSummary
       ELSE /\ out' = Append(out, OutLine(IF args.json THEN "json" ELSE "listing", <<>>, results))
            /\ UNCHANGED <<err, nreads, lastRead>>
    /\ exit' = ExitOk
    /\ pc' = "exited"
    /\ UNCHANGED <<baseExists, fs, args, todo, step, info, results, raised, verdict,
                   changes, lines, parsed>>

Next ==
    \/ MainStart
    \/ GetCpuInfo
    \/ GetMemoryInfo
    \/ GetNumaInfo
    \/ GetGpuInfo
    \/ GetAcceleratorInfo
    \/ CheckRequirements
    \/ PrintSummary
    \/ PrintInfo

Spec == Init /\ [][Next]_vars

\* ------------------------------------------- a provider that changes content
\* the provider replaces its content while the run is between two steps
ProviderChange ==
    /\ pc \in {"aggregate", "evaluate", "summary", "print"}
    /\ changes < MaxChanges
    /\ fs' \in RaceScenarios \ {fs}
    /\ changes' = changes + 1
    /\ UNCHANGED <<baseExists, args, pc, todo, step, info, results, out, err, exit,
                   raised, verdict, nreads, lastRead, lines, parsed>>

RaceArgs ==
    {MkArgs({"check"}, DefaultMinCpus, 2, DefaultMinGpus),
     MkArgs({"all"}, DefaultMinCpus, DefaultMinMemoryHalf, DefaultMinGpus),
     MkArgs({"cpu", "json"}, DefaultMinCpus, DefaultMinMemoryHalf, DefaultMinGpus),
     MkArgs({"summary"}, DefaultMinCpus, DefaultMinMemoryHalf, DefaultMinGpus),
     MkArgs({}, DefaultMinCpus, DefaultMinMemoryHalf, DefaultMinGpus)}

InitRace ==
    /\ InitRun
    /\ args \in RaceArgs
    /\ baseExists = TRUE
    /\ fs \in RaceScenarios

NextRace ==
    \/ MainStart
    \/ GetCpuInfo
    \/ GetMemoryInfo
    \/ GetNumaInfo
    \/ GetGpuInfo
    \/ GetAcceleratorInfo
    \/ CheckRequirements
    \/ PrintSummary
    \/ PrintInfo
    \/ ProviderChange

SpecRace == InitRace /\ [][NextRace]_vars

\* ------------------------------------------------ parse_key_value on its own
\* the characters the value of a line is drawn from
ValChars == {"-", "+", " ", "_", "1", "0", "x", "="}
ValueSet == UNION {[1..n -> ValChars] : n \in 0..MaxValLen}
KeySet == {<<"a">>, <<"b">>}
Line(k, v) == [k |-> k, v |-> v]
\* lines that may follow the first one
TailLines == {Line(<<"a">>, <<"7">>), Line(<<"b">>, <<" ", "x", " ">>)}

LineInputs ==
    {<<Line(k, v)>> : k \in KeySet, v \in ValueSet}
    \cup {<<Line(k, v), l>> : k \in KeySet, v \in ValueSet, l \in TailLines}

\* the text blob made of the lines k=v
RECURSIVE Serialize(_)
Serialize(ls) ==
    IF ls = <<>> THEN <<>>
    ELSE Head(ls).k \o <<"=">> \o Head(ls).v
         \o (IF Tail(ls) = <<>> THEN <<>> ELSE <<NL>> \o Serialize(Tail(ls)))

InitParse ==
    /\ pc = "parse"
    /\ lines \in LineInputs
    /\ parsed = EmptyDict
    /\ baseExists = TRUE
    /\ fs = AllAbsent
    /\ args = MkArgs({}, DefaultMinCpus, DefaultMinMemoryHalf, DefaultMinGpus)
    /\ todo = <<>>
    /\ step = 1
    /\ info = EmptyDict
    /\ results = NoData
    /\ out = <<>>
    /\ err = <<>>
    /\ exit = -1
    /\ raised = ""
    /\ verdict = "none"
    /\ nreads = 0
    /\ lastRead = NoRead
    /\ changes = 0

\* one call of parse_key_value on the blob
ParseBlob ==
    /\ pc = "parse"
    /\ parsed' = ParseKeyValue(Serialize(lines))
    /\ pc' = "parsed"
    /\ UNCHANGED <<runVars, lines>>

NextParse == ParseBlob

SpecParse == InitParse /\ [][NextParse]_vars

\* ================================================================ the claims

\* the line that decides parse(T)[k]: no later line has the same key
Decides(i) == \A j \in (i + 1)..Len(lines) : lines[j].k # lines[i].k

\* v matches ^-?[0-9]+$
StrictInt(v) ==
    LET body == IF v # <<>> /\ Head(v) = "-" THEN Tail(v) ELSE v
    IN body # <<>> /\ \A i \in 1..Len(body) : body[i] \in Digits

StrictValue(v) ==
    IF Head(v) = "-" THEN 0 - DigitsValue(Tail(v), 0) ELSE DigitsValue(v, 0)

\* C1 as stated: parse(T)[k] is the integer value of v exactly when v matches
\* ^-?[0-9]+$, and the trimmed string v otherwise.
C1_StrictIntegerOrTrimmed ==
    pc = "parsed" =>
        \A i \in 1..Len(lines) :
            Decides(i) =>
                /\ lines[i].k \in DOMAIN parsed
                /\ parsed[lines[i].k] =
                       IF StrictInt(lines[i].v) THEN IntV(StrictValue(lines[i].v))
                       ELSE StrV(Strip(lines[i].v))

\* t matches ^[+-]?[0-9]+(_[0-9]+)*$
Numeral(t) ==
    LET sign == IF t # <<>> /\ t[1] \in {"+", "-"} THEN 1 ELSE 0
    IN /\ Len(t) > sign
       /\ \A i \in (sign + 1)..Len(t) :
              \/ t[i] \in Digits
              \/ /\ t[i] = "_"
                 /\ i > sign + 1
                 /\ i < Len(t)
                 /\ t[i - 1] \in Digits
                 /\ t[i + 1] \in Digits

NumeralValue(t) ==
    IF t[1] = "-" THEN 0 - DigitsValue(Tail(t), 0)
    ELSE IF t[1] = "+" THEN DigitsValue(Tail(t), 0)
    ELSE DigitsValue(t, 0)

\* C1 amended: parse(T)[k] is an integer exactly when v, with surrounding
\* whitespace removed, matches ^[+-]?[0-9]+(_[0-9]+)*$ (its value with the
\* underscores dropped); otherwise it is v with trailing whitespace removed
\* and leading whitespace kept.
C1_PythonIntegerOrRightTrimmed ==
    pc = "parsed" =>
        \A i \in 1..Len(lines) :
            Decides(i) =>
                /\ lines[i].k \in DOMAIN parsed
                /\ parsed[lines[i].k] =
                       IF Numeral(Strip(lines[i].v))
                       THEN IntV(NumeralValue(Strip(lines[i].v)))
                       ELSE StrV(RStrip(lines[i].v))

\* a value with a plus sign and a space in front was parsed to an integer
C1_Witness ==
    /\ pc = "parsed"
    /\ lines[1].v = <<" ", "+", "1">>
    /\ Decides(1)
    /\ parsed[lines[1].k] = IntV(1)

\* ------------------------------------------------------ helpers of the claims
\* the parsed blob of attribute a in provider content f, empty when there is none
BlobOf(f, a) ==
    LET v == ReadAttr(f, a).value
    IN IF Truthy(v) THEN ParseKeyValue(v.s) ELSE EmptyDict

OutKinds == {out[i].kind : i \in 1..Len(out)}
PermissionLines == Cardinality({i \in 1..Len(err) : err[i].kind = "permission"})
NoCategory(a) == ~a.all /\ ~a.cpu /\ ~a.memory /\ ~a.numa /\ ~a.gpu /\ ~a.accelerator
FiveEmptyRecords == [c \in {"cpu", "memory", "numa", "gpu", "accelerator"} |-> EmptyDict]

\* C2 as stated: a failure of one attribute stays local, so every aggregation
\* that was started returns its record: the run never ends with an aggregation
\* still pending.
C2_AggregationsRunToCompletion ==
    /\ raised # "ValueError"
    /\ pc = "exited" => todo = <<>>

\* C3 as stated: for every provider content and threshold triple the check
\* returns a verdict, and the verdict is "met" exactly when online >= minCpus,
\* total_gb >= minMemoryGb and total >= minGpus, a missing field counting as 0.
C3_VerdictForEveryContent ==
    (pc = "exited" /\ baseExists /\ args.check) =>
        /\ verdict # "none"
        /\ {"cpu", "memory", "gpu"} \subseteq DOMAIN results
        /\ LET c == GeInt(Get(results["cpu"], K_online, IntV(0)), args.min_cpus)
               m == GeHalfGb(Get(results["memory"], K_total_gb, IntV(0)), args.min_memory_half)
               g == GeInt(Get(results["gpu"], K_total, IntV(0)), args.min_gpus)
           IN /\ c.ok /\ m.ok /\ g.ok
              /\ (verdict = "met") <=> (c.b /\ m.b /\ g.b)
              /\ (fs["gpu_info"].kind = "absent" /\ args.min_gpus = 1) => verdict = "unmet"

\* C4: a read of a missing file returns None and writes nothing; a read of an
\* unreadable file returns None and writes one diagnostic; a successful read
\* returns the stripped content and writes nothing.
C4_ReadAttrOutcomes ==
    /\ lastRead.attr # "" =>
          /\ lastRead.kind = "absent" =>
                lastRead.value = NoneV /\ lastRead.ndiag = 0 /\ raised # "ValueError"
          /\ lastRead.kind = "denied" =>
                /\ lastRead.value = NoneV
                /\ lastRead.ndiag = 1
                /\ raised # "ValueError"
                /\ ErrLine("permission", lastRead.attr) \in {err[i] : i \in 1..Len(err)}
          /\ lastRead.kind = "ok" =>
                lastRead.value = StrV(Strip(lastRead.text)) /\ lastRead.ndiag = 0
    /\ (\A a \in Attrs : fs[a].kind = "denied") => PermissionLines = nreads
    /\ (\A a \in Attrs : fs[a].kind # "denied") => PermissionLines = 0

\* an unreadable file was read: None came back with one diagnostic
C4_Witness ==
    /\ lastRead.kind = "denied"
    /\ lastRead.value = NoneV
    /\ lastRead.ndiag = 1
    /\ PermissionLines >= 2

\* C5: with --check-requirements and the base path present, whatever the other
\* flags, only the requirement check runs: no summary, listing or JSON is
\* printed, and the exit status is 0 when the verdict is met, 1 when it is not.
C5_CheckRequirementsShortCircuits ==
    (baseExists /\ args.check) =>
        /\ OutKinds \cap {"summary", "json", "listing"} = {}
        /\ DOMAIN results \subseteq {"cpu", "memory", "gpu"}
        /\ lastRead.attr # "system_summary"
        /\ pc \notin {"summary", "print"}
        /\ pc = "exited" =>
              /\ verdict = "met" => exit = ExitOk
              /\ verdict = "unmet" => exit = ExitFail
              /\ exit = ExitOk => verdict = "met"
              /\ raised = "" => verdict # "none"
        /\ pc # "exited" => exit = -1 /\ verdict = "none"

\* a met requirement check with every other flag given
C5_Witness ==
    /\ baseExists
    /\ args.check /\ args.summary /\ args.all /\ args.cpu /\ args.json
    /\ pc = "exited"
    /\ verdict = "met"
    /\ exit = ExitOk

\* C6 as stated: a run with no category flag prints what --summary prints,
\* the summary text, or the fixed text when the attribute is absent; a run
\* with a category flag never prints the summary.
C6_SummaryOrFallbackWhenAbsent ==
    /\ (baseExists /\ ~args.check /\ (args.summary \/ NoCategory(args)) /\ pc = "exited") =>
          /\ exit = ExitOk
          /\ out = <<OutLine("summary",
                             IF fs["system_summary"].kind = "ok"
                             THEN Strip(fs["system_summary"].text)
                             ELSE SummaryFallback,
                             NoData)>>
    /\ (baseExists /\ ~args.check /\ ~args.summary /\ ~NoCategory(args)) =>
          /\ "summary" \notin OutKinds
          /\ lastRead.attr # "system_summary"

\* C6 amended: the fixed text is printed when the attribute is absent,
\* unreadable, or empty once stripped; otherwise the stripped text.
C6_SummaryOrFallbackWhenEmpty ==
    /\ (baseExists /\ ~args.check /\ (args.summary \/ NoCategory(args)) /\ pc = "exited") =>
          /\ exit = ExitOk
          /\ out = <<OutLine("summary",
                             IF /\ fs["system_summary"].kind = "ok"
                                /\ Strip(fs["system_summary"].text) # <<>>
                             THEN Strip(fs["system_summary"].text)
                             ELSE SummaryFallback,
                             NoData)>>
    /\ (baseExists /\ ~args.check /\ ~args.summary /\ ~NoCategory(args)) =>
          /\ "summary" \notin OutKinds
          /\ lastRead.attr # "system_summary"
          /\ (pc = "exited" /\ raised = "") =>
                /\ Len(out) = 1
                /\ out[1].kind = IF args.json THEN "json" ELSE "listing"
                /\ out[1].data = results

\* a run with only --json against an empty system_summary printed the fixed text
C6_Witness ==
    /\ baseExists
    /\ NoCategory(args) /\ ~args.check /\ ~args.summary /\ args.json
    /\ fs["system_summary"] = File(T_empty)
    /\ pc = "exited"
    /\ out = <<OutLine("summary", SummaryFallback, NoData)>>

\* C7: without the base path no attribute is ever read, the diagnostic is
\* written once to the error stream, and the exit status is 1.
C7_ProviderUnavailable ==
    ~baseExists =>
        /\ nreads = 0
        /\ lastRead = NoRead
        /\ out = <<>>
        /\ results = NoData
        /\ exit # ExitOk
        /\ pc \in {"start", "exited"}
        /\ pc = "start" => err = <<>>
        /\ pc = "exited" =>
              /\ exit = ExitFail
              /\ err = <<ErrLine("error", ""), ErrLine("hint", ""), ErrLine("command", "")>>

\* a requirement check without the base path ended with status 1
C7_Witness ==
    /\ ~baseExists
    /\ args.check
    /\ pc = "exited"
    /\ exit = ExitFail
    /\ Len(err) = 3

\* the synthetic fields: category, attribute read, field written
SyntheticFields ==
    {<<"cpu", "cpu_count", K_online>>, <<"cpu", "cpu_total", K_total>>,
     <<"cpu", "cpu_topology", K_topology>>,
     <<"memory", "mem_total_bytes", K_total_bytes>>,
     <<"memory", "mem_total_bytes", K_total_mb>>,
     <<"memory", "mem_total_bytes", K_total_gb>>,
     <<"numa", "numa_nodes", K_nodes>>, <<"numa", "numa_info", K_details>>,
     <<"gpu", "gpu_details", K_details>>,
     <<"accelerator", "accelerator_count", K_count>>,
     <<"accelerator", "accelerator_details", K_details>>}

\* the blob merged into the record of a category
BlobOfCategory(f, c) ==
    CASE c = "cpu" -> BlobOf(f, "cpu_info")
      [] c = "memory" -> BlobOf(f, "mem_info")
      [] c = "gpu" -> BlobOf(f, "gpu_info")
      [] OTHER -> EmptyDict

\* C8: no record ever holds a None placeholder; a field whose attribute is
\* absent is not in the record (unless the category's blob has a key of that
\* name); with every attribute absent --all yields five empty records.
C8_AbsentFieldsOmitted ==
    /\ \A k \in DOMAIN info : info[k] # NoneV
    /\ \A c \in DOMAIN results : \A k \in DOMAIN results[c] : results[c][k] # NoneV
    /\ \A sf \in SyntheticFields :
          (sf[1] \in DOMAIN results /\ fs[sf[2]].kind # "ok"
             /\ sf[3] \notin DOMAIN BlobOfCategory(fs, sf[1]))
          => sf[3] \notin DOMAIN results[sf[1]]
    /\ (baseExists /\ fs = AllAbsent /\ args.all /\ ~args.check /\ ~args.summary
          /\ pc = "exited") =>
          /\ raised = ""
          /\ exit = ExitOk
          /\ results = FiveEmptyRecords
          /\ out = <<OutLine(IF args.json THEN "json" ELSE "listing", <<>>, FiveEmptyRecords)>>

\* --all against a provider with no attribute returned five empty records
C8_Witness ==
    /\ baseExists
    /\ fs = AllAbsent
    /\ args.all /\ ~args.check /\ ~args.summary
    /\ pc = "exited"
    /\ results = FiveEmptyRecords

\* C9: a later-merged source wins: blob keys online/total over cpu_count and
\* cpu_total, cpu_topology over a blob key topology, blob keys total_bytes,
\* total_mb, total_gb over the derived memory fields, gpu_details over a blob
\* key details; the requirement check compares the value left after that.
C9_LaterSourceOverrides ==
    /\ "cpu" \in DOMAIN results =>
          LET blob == BlobOf(fs, "cpu_info")
              topo == ReadAttr(fs, "cpu_topology").value
          IN /\ \A k \in {K_online, K_total} \cap DOMAIN blob : results["cpu"][k] = blob[k]
             /\ Truthy(topo) => results["cpu"][K_topology] = topo
    /\ "memory" \in DOMAIN results =>
          LET blob == BlobOf(fs, "mem_info")
          IN \A k \in {K_total_bytes, K_total_mb, K_total_gb} \cap DOMAIN blob :
                 results["memory"][k] = blob[k]
    /\ "gpu" \in DOMAIN results =>
          LET det == ReadAttr(fs, "gpu_details").value
          IN Truthy(det) => results["gpu"][K_details] = det
    /\ (args.check /\ verdict # "none") =>
          LET cblob == BlobOf(fs, "cpu_info")
              mblob == BlobOf(fs, "mem_info")
          IN /\ (K_online \in DOMAIN cblob /\ cblob[K_online].t = "int") =>
                    ("cpus_ok" \in OutKinds <=> cblob[K_online].n >= args.min_cpus)
             /\ (K_total_gb \in DOMAIN mblob /\ mblob[K_total_gb].t = "int") =>
                    ("memory_ok" \in OutKinds <=> 2 * mblob[K_total_gb].n >= args.min_memory_half)

\* cpu_count says 8, the blob says online=2: the check compared 2 against 4
C9_Witness ==
    /\ fs = Collide
    /\ args.check
    /\ args.min_cpus = DefaultMinCpus
    /\ pc = "exited"
    /\ results["cpu"][K_online] = IntV(2)
    /\ results["cpu"][K_topology] = StrV(Strip(T_topology))
    /\ "cpus_fail" \in OutKinds

\* the record an aggregation yields when every read sees the one content f
OneField(v, key, val) == IF Truthy(v) THEN Put(EmptyDict, key, val) ELSE EmptyDict
IntOf(v) == IntV(PyInt(v.s).n)

SnapshotCpu(f) ==
    LET cnt == ReadAttr(f, "cpu_count").value
        tot == ReadAttr(f, "cpu_total").value
        topo == ReadAttr(f, "cpu_topology").value
    IN Update(Update(Update(OneField(cnt, K_online, IntOf(cnt)),
                            OneField(tot, K_total, IntOf(tot))),
                     BlobOf(f, "cpu_info")),
              OneField(topo, K_topology, topo))

SnapshotMemory(f) ==
    LET b == ReadAttr(f, "mem_total_bytes").value
        n == PyInt(b.s).n
    IN Update(Update(Update(OneField(b, K_total_bytes, IntV(n)),
                            OneField(b, K_total_mb, IntV(n \div MB))),
                     OneField(b, K_total_gb, FloatGB(n))),
              BlobOf(f, "mem_info"))

SnapshotNuma(f) ==
    LET n == ReadAttr(f, "numa_nodes").value
        d == ReadAttr(f, "numa_info").value
    IN Update(OneField(n, K_nodes, IntOf(n)), OneField(d, K_details, d))

SnapshotGpu(f) ==
    LET d == ReadAttr(f, "gpu_details").value
    IN Update(BlobOf(f, "gpu_info"), OneField(d, K_details, d))

SnapshotAccelerator(f) ==
    LET n == ReadAttr(f, "accelerator_count").value
        d == ReadAttr(f, "accelerator_details").value
    IN Update(OneField(n, K_count, IntOf(n)), OneField(d, K_details, d))

SnapshotOf(c, f) ==
    CASE c = "cpu" -> SnapshotCpu(f)
      [] c = "memory" -> SnapshotMemory(f)
      [] c = "numa" -> SnapshotNuma(f)
      [] c = "gpu" -> SnapshotGpu(f)
      [] OTHER -> SnapshotAccelerator(f)

K_model == <<"m", "o", "d", "e", "l">>

\* C10: the reads are separate steps with no snapshot; as long as the provider
\* has not changed, every returned record, and the verdict built from them, is
\* the aggregation of the provider's one content.
C10_UnchangedProviderGivesSnapshot ==
    changes = 0 =>
        /\ \A c \in DOMAIN results : results[c] = SnapshotOf(c, fs)
        /\ verdict # "none" =>
              (verdict = "met") <=>
                  Checks(SnapshotCpu(fs), SnapshotMemory(fs), SnapshotGpu(fs),
                         args.min_cpus, args.min_memory_half, args.min_gpus).all

\* the provider changed after cpu_count was read: the CPU record has online
\* of the old content and the blob of the new one, and is the CPU record of
\* no content the provider ever had
C10_Witness ==
    /\ changes > 0
    /\ pc = "exited"
    /\ raised = ""
    /\ "cpu" \in DOMAIN results
    /\ K_online \in DOMAIN results["cpu"]
    /\ K_model \in DOMAIN results["cpu"]
    /\ results["cpu"][K_online] = IntV(8)
    /\ results["cpu"][K_model] = StrV(<<"y">>)
    /\ \A f \in RaceScenarios : results["cpu"] # SnapshotCpu(f)

====
